---- MODULE Spec2Model ----
(***************************************************************************)
(* Reference Collection Controller of sanity-advanced-reference-array.     *)
(*                                                                         *)
(* Two React components are modelled:                                      *)
(*   - the enhanced component (debounced search, click-to-add, add-all,    *)
(*     confirmed remove-all, sort with direction toggle), specification    *)
(*     Spec; DeepSpec and LongSpec follow one host document for more user  *)
(*     events, LiveSpec adds the fairness of timers and fetches;           *)
(*   - the original component of src/src/AdvancedRefArray.tsx,             *)
(*     specification LegacySpec.                                           *)
(*                                                                         *)
(* A React render is a snapshot: every callback created by a render sees   *)
(* the props and state of that render.  An async callback therefore keeps  *)
(* the snapshot of the render in which it was started; the records of the  *)
(* requests in flight carry the captured values.                           *)
(***************************************************************************)
EXTENDS Integers, Sequences, FiniteSets, TLC

(***************************************************************************)
(* Bounds of the model.                                                    *)
(***************************************************************************)
MaxInFlight == 2   \* search queries in flight at the same time
MaxChecks == 1     \* sortedness checks pending at the same time
MaxSorts == 1      \* sorts of the original component waiting for their fetch
MaxUser == 3       \* user events in one behaviour of Spec and LegacySpec
MaxUserDeep == 5   \* user events in one behaviour of DeepSpec
MaxIssued == 2     \* the count of queries per search text saturates here
MaxUserLive == 2   \* user events in one behaviour of LiveSpec
MaxUserLong == 7   \* user events in one behaviour of LongSpec
MaxUserReplace == 8  \* user events in one behaviour of ReplaceSpec

(***************************************************************************)
(* The document store (external).  Strings that the code inspects are      *)
(* sequences of characters.                                                *)
(***************************************************************************)
Ids == {"p1", "p2", "p3"}
DocOrder == <<"p1", "p2", "p3">>
Keys == {"k1", "k2"}

Null == [t |-> "null"]
Undefined == [t |-> "undefined"]
NumV(n) == [t |-> "num", n |-> n]
StrV(s) == [t |-> "str", s |-> s]
NoDoc == [t |-> "nodoc"]

\* UTF-16 code units of the characters that occur
CharCode == [c \in {" ", "1", "2", "3", "_", "a", "b", "c", "d", "e", "g", "i", "l", "p",
                     "r", "t", "w"} |->
               CASE c = " " -> 32 [] c = "1" -> 49 [] c = "2" -> 50 [] c = "3" -> 51
                 [] c = "_" -> 95 [] c = "a" -> 97 [] c = "b" -> 98
                 [] c = "c" -> 99 [] c = "d" -> 100 [] c = "e" -> 101 [] c = "g" -> 103
                 [] c = "i" -> 105 [] c = "l" -> 108 [] c = "p" -> 112 [] c = "r" -> 114
                 [] c = "t" -> 116 [] c = "w" -> 119]

\* the spelling of the field names of the documents
FieldChars == [f \in {"_id", "title", "price"} |->
  CASE f = "_id" -> <<"_", "i", "d">>
    [] f = "title" -> <<"t", "i", "t", "l", "e">>
    [] f = "price" -> <<"p", "r", "i", "c", "e">>]

\* the spelling of the document ids
IdChars == [i \in Ids |->
  CASE i = "p1" -> <<"p", "1">> [] i = "p2" -> <<"p", "2">> [] i = "p3" -> <<"p", "3">>]

MkDoc(id, title, price) ==
  [f \in {"_id", "title", "price"} |->
     CASE f = "_id" -> StrV(IdChars[id]) [] f = "title" -> title [] f = "price" -> price]

\* doc._id as a document id
DocId(doc) == CHOOSE i \in Ids : IdChars[i] = doc["_id"].s

\* p1 Gadget 30, p2 Widget 10, p3 Widgetron without a price
DocsPlain == [i \in Ids |->
  CASE i = "p1" -> MkDoc("p1", StrV(<<"g", "a">>), NumV(30))
    [] i = "p2" -> MkDoc("p2", StrV(<<"w", "a">>), NumV(10))
    [] i = "p3" -> MkDoc("p3", StrV(<<"w", "b">>), Null)]

\* the three documents tie on price
DocsTie == [i \in Ids |->
  CASE i = "p1" -> MkDoc("p1", StrV(<<"w", "b">>), NumV(30))
    [] i = "p2" -> MkDoc("p2", StrV(<<"w", "a">>), NumV(30))
    [] i = "p3" -> MkDoc("p3", StrV(<<"g", "a">>), NumV(30))]

\* p3 has been deleted from the store: a reference to it resolves to null
DocsDangling == [i \in Ids |->
  CASE i = "p1" -> MkDoc("p1", StrV(<<"g", "a">>), NumV(30))
    [] i = "p2" -> MkDoc("p2", StrV(<<"w", "a">>), NumV(10))
    [] i = "p3" -> NoDoc]

\* p2 and p3 have been deleted from the store
DocsSingle == [i \in Ids |->
  CASE i = "p1" -> MkDoc("p1", StrV(<<"g", "a">>), NumV(30))
    [] i = "p2" -> NoDoc
    [] i = "p3" -> NoDoc]

\* a document whose only field besides _id is title
MkDocTitled(id, title) ==
  [f \in {"_id", "title"} |-> IF f = "_id" THEN StrV(IdChars[id]) ELSE title]

\* p1 without a title, p2 Widget, p3 deleted; no document has a price
DocsTitled == [i \in Ids |->
  CASE i = "p1" -> MkDocTitled("p1", Null)
    [] i = "p2" -> MkDocTitled("p2", StrV(<<"w", "a">>))
    [] i = "p3" -> NoDoc]

\* the texts the user types
Texts == {<<>>, <<"w">>, <<"g">>, <<" ">>}

(***************************************************************************)
(* Sequence helpers (Array.prototype.filter / map / findIndex / some).     *)
(***************************************************************************)
RefsOf(refs) == [i \in 1..Len(refs) |-> refs[i].ref]
RefIds(refs) == {refs[i].ref : i \in 1..Len(refs)}
Range(s) == {s[i] : i \in 1..Len(s)}

\* self.findIndex((t) => t._ref === r), 1-based, 0 when absent
FindIndexRef(refs, r) ==
  IF \E i \in 1..Len(refs) : refs[i].ref = r
  THEN CHOOSE i \in 1..Len(refs) :
         /\ refs[i].ref = r
         /\ \A j \in 1..(i - 1) : refs[j].ref # r
  ELSE 0

RECURSIVE KeepIdx(_, _, _)
\* the subsequence of s at the indices of keep, in order, scanning from i
KeepIdx(s, keep, i) ==
  IF i > Len(s) THEN <<>>
  ELSE IF i \in keep THEN <<s[i]>> \o KeepIdx(s, keep, i + 1)
       ELSE KeepIdx(s, keep, i + 1)

IsPrefix(p, s) == Len(p) <= Len(s) /\ \A i \in 1..Len(p) : p[i] = s[i]

RECURSIVE TrimLeft(_)
TrimLeft(s) == IF s # <<>> /\ Head(s) = " " THEN TrimLeft(Tail(s)) ELSE s
RECURSIVE TrimRight(_)
TrimRight(s) ==
  IF s # <<>> /\ s[Len(s)] = " " THEN TrimRight(SubSeq(s, 1, Len(s) - 1)) ELSE s
\* String.prototype.trim
Trim(s) == TrimRight(TrimLeft(s))

RECURSIVE LexCompare(_, _)
\* -1, 0, 1: order of two character sequences by code unit
LexCompare(a, b) ==
  IF a = <<>> /\ b = <<>> THEN 0
  ELSE IF a = <<>> THEN -1
  ELSE IF b = <<>> THEN 1
  ELSE IF CharCode[Head(a)] < CharCode[Head(b)] THEN -1
  ELSE IF CharCode[Head(a)] > CharCode[Head(b)] THEN 1
  ELSE LexCompare(Tail(a), Tail(b))

\* String.prototype.localeCompare on the lower-case strings of the store
LocaleCompare(a, b) == LexCompare(a, b)

(***************************************************************************)
(* QueryExecutor: client.fetch of the search query.                        *)
(***************************************************************************)
\* *[_type in [...] && title match "<text>*"][0...limit], in store order
StoreSearch(d, text, limit) ==
  LET hit == {i \in 1..Len(DocOrder) :
                /\ d[DocOrder[i]] # NoDoc
                /\ d[DocOrder[i]]["title"].t = "str"
                /\ IsPrefix(text, d[DocOrder[i]]["title"].s)}
      all == KeepIdx(DocOrder, hit, 1)
  IN  SubSeq(all, 1, IF Len(all) < limit THEN Len(all) ELSE limit)

\* *[_id match "<id>*"][0]{"data": <field>[]->}: the dereferenced documents
\* of the collection, null for a reference that does not resolve
Expand(d, refs) == [i \in 1..Len(refs) |-> d[refs[i].ref]]

(***************************************************************************)
(* SortAnalyzer.                                                           *)
(***************************************************************************)
\* a[sortDataType]: undefined for a field the document does not have
Field(doc, f) == IF f \in DOMAIN doc THEN doc[f] ELSE Undefined

\* v == null
IsNullish(v) == v = Null \/ v = Undefined

\* a < b of JavaScript on the values of the store (numbers; a string against
\* a number is NaN, never less)
JsLess(av, bv) ==
  \/ av.t = "num" /\ bv.t = "num" /\ av.n < bv.n
  \/ av.t = "str" /\ bv.t = "str" /\ LexCompare(av.s, bv.s) < 0

\* variant: the direction is ignored, every sort is ascending
CompareAlwaysAscending(a, b, f, dir) ==
  LET av == Field(a, f)
      bv == Field(b, f)
  IN  IF IsNullish(av) /\ IsNullish(bv) THEN 0
      ELSE IF IsNullish(av) THEN 1
      ELSE IF IsNullish(bv) THEN -1
      ELSE IF av.t = "str" /\ bv.t = "str" THEN LocaleCompare(av.s, bv.s)
      ELSE IF JsLess(av, bv) THEN -1
      ELSE IF JsLess(bv, av) THEN 1
      ELSE 0

\* the comparator of sortAllReferences; dir is -1 when alreadySorted, else 1
Compare(a, b, f, dir) ==
  LET av == Field(a, f)
      bv == Field(b, f)
  IN  IF IsNullish(av) /\ IsNullish(bv) THEN 0
      ELSE IF IsNullish(av) THEN 1
      ELSE IF IsNullish(bv) THEN -1
      ELSE IF av.t = "str" /\ bv.t = "str" THEN dir * LocaleCompare(av.s, bv.s)
      ELSE IF JsLess(av, bv) THEN dir * (-1)
      ELSE IF JsLess(bv, av) THEN dir * 1
      ELSE 0

\* the comparator of checkAlreadySorted (ascending only)
CompareAsc(a, b, f) ==
  LET av == Field(a, f)
      bv == Field(b, f)
  IN  IF IsNullish(av) /\ IsNullish(bv) THEN 0
      ELSE IF IsNullish(av) THEN 1
      ELSE IF IsNullish(bv) THEN -1
      ELSE IF av.t = "str" /\ bv.t = "str" THEN LocaleCompare(av.s, bv.s)
      ELSE IF JsLess(av, bv) THEN -1
      ELSE IF JsLess(bv, av) THEN 1
      ELSE 0

\* x inserted into the sorted sequence s behind every element that does not
\* order after it (Array.prototype.sort is stable)
InsertSorted(x, s, f, dir) ==
  LET after == {i \in 1..Len(s) : Compare(x, s[i], f, dir) < 0}
      pos == IF after = {} THEN Len(s) + 1
             ELSE CHOOSE i \in after : \A j \in after : i <= j
  IN  SubSeq(s, 1, pos - 1) \o <<x>> \o SubSeq(s, pos, Len(s))

RECURSIVE SortDocs(_, _, _)
\* [...expandedRefs].sort(comparator) of sortAllReferences
SortDocs(s, f, dir) ==
  IF s = <<>> THEN <<>>
  ELSE InsertSorted(s[Len(s)], SortDocs(SubSeq(s, 1, Len(s) - 1), f, dir), f, dir)

\* variant: an unstable sort, x goes in front of the elements it ties with
InsertSortedAscUnstable(x, s, f) ==
  LET after == {i \in 1..Len(s) : CompareAsc(x, s[i], f) <= 0}
      pos == IF after = {} THEN Len(s) + 1
             ELSE CHOOSE i \in after : \A j \in after : i <= j
  IN  SubSeq(s, 1, pos - 1) \o <<x>> \o SubSeq(s, pos, Len(s))

InsertSortedAsc(x, s, f) ==
  LET after == {i \in 1..Len(s) : CompareAsc(x, s[i], f) < 0}
      pos == IF after = {} THEN Len(s) + 1
             ELSE CHOOSE i \in after : \A j \in after : i <= j
  IN  SubSeq(s, 1, pos - 1) \o <<x>> \o SubSeq(s, pos, Len(s))

RECURSIVE SortDocsAsc(_, _)
\* [...expandedRefs].sort(comparator) of checkAlreadySorted
SortDocsAsc(s, f) ==
  IF s = <<>> THEN <<>>
  ELSE InsertSortedAsc(s[Len(s)], SortDocsAsc(SubSeq(s, 1, Len(s) - 1), f), f)

\* the comparator reads a[sortDataType]: a TypeError when a or b is null
ComparatorThrows(s) == Len(s) >= 2 /\ \E i \in 1..Len(s) : s[i] = NoDoc

\* key.startsWith('_')
StartsWithUnderscore(k) == FieldChars[k] # <<>> /\ Head(FieldChars[k]) = "_"

\* Array.prototype.sort() without comparator: by code unit
SortKeys(ks) ==
  CHOOSE s \in [1..Cardinality(ks) -> ks] :
    /\ \A i, j \in 1..Cardinality(ks) : i < j => LexCompare(FieldChars[s[i]], FieldChars[s[j]]) < 0

\* Object.keys(expandedValues[0]).filter(key => !key.startsWith('_')).sort()
Catalog(doc) == SortKeys({k \in DOMAIN doc : ~StartsWithUnderscore(k)})

(***************************************************************************)
(* State of the enhanced component.                                        *)
(***************************************************************************)
VARIABLES
  docs,          \* the documents of the store
  cfg,           \* the configuration props
  value,         \* props.value: the committed collection, <<>> when unset
  findValue,     \* search text
  findData,      \* search results (document ids)
  isSearching,
  dangerMode,
  sortMode,
  sortDataType,  \* selected sort field, "" when none
  sortDataList,  \* catalog of sortable fields
  alreadySorted, \* direction flag
  isSorting,
  error,         \* "none" for null
  timers,        \* pending debounce timers: the text and the ids of the
                 \* collection of the render each closes over
  queries,       \* search queries in flight, oldest first
  checks,        \* pending updateDataList / checkAlreadySorted tasks
  sorts,         \* sortAllReferences calls waiting for getSortData
  emitted,       \* the patches passed to onChange by the last step
  last,          \* the last step taken
  budget,        \* user events left in this behaviour
  mounted,       \* the component is mounted
  issued,        \* queries dispatched since the search text last changed
  lastSort       \* the last commit of a sort: the collection before it and
                 \* the one it committed

vars == <<docs, cfg, value, findValue, findData, isSearching, dangerMode, sortMode,
          sortDataType, sortDataList, alreadySorted, isSorting, error, timers,
          queries, checks, sorts, emitted, last, budget, mounted, issued, lastSort>>

\* what a render shows: a change of any of these re-renders the component
view == <<value, findValue, findData, isSearching, dangerMode, sortMode,
          sortDataType, sortDataList, alreadySorted, isSorting, error>>

DefaultCfg == [allowIndividualAdd |-> TRUE, allowBulkAdd |-> TRUE,
               filterExisting |-> TRUE, enableKeyboardShortcuts |-> TRUE,
               maxSearchResults |-> 50]

MkRef(id, key) == [ref |-> id, key |-> key]

\* the widget mounts on a host document: store, configuration, collection
Mount(d, c, v) == [docs |-> d, cfg |-> c, value |-> v]

Mounts == {
  Mount(DocsPlain, DefaultCfg, <<>>),
  Mount(DocsPlain, DefaultCfg, <<MkRef("p1", "k1"), MkRef("p2", "k2")>>),
  Mount(DocsTie, [DefaultCfg EXCEPT !.filterExisting = FALSE],
        <<MkRef("p3", "k1"), MkRef("p1", "k2")>>),
  Mount(DocsDangling, [DefaultCfg EXCEPT !.allowBulkAdd = FALSE],
        <<MkRef("p3", "k1"), MkRef("p1", "k2")>>),
  Mount(DocsPlain, [DefaultCfg EXCEPT !.enableKeyboardShortcuts = FALSE,
                                      !.allowIndividualAdd = FALSE,
                                      !.maxSearchResults = 1],
        <<MkRef("p3", "k1"), MkRef("p2", "k2")>>),
  Mount(DocsDangling, DefaultCfg, <<MkRef("p1", "k1"), MkRef("p3", "k2")>>)}

\* the mounts of the behaviours that are followed for more user events
DeepMounts == {
  Mount(DocsPlain, DefaultCfg, <<MkRef("p1", "k1"), MkRef("p2", "k2")>>)}

\* the mount of the behaviours that are followed longest: one document,
\* one reference
LongMounts == {
  Mount(DocsSingle, [DefaultCfg EXCEPT !.maxSearchResults = 1], <<MkRef("p1", "k1")>>)}

\* the mount of the behaviours in which the whole collection is replaced:
\* one reference, adds by the "Add All" button only
ReplaceMounts == {
  Mount(DocsTitled, [DefaultCfg EXCEPT !.enableKeyboardShortcuts = FALSE,
                                       !.allowIndividualAdd = FALSE,
                                       !.maxSearchResults = 1],
        <<MkRef("p1", "k1")>>)}

Step(op, arg) == [op |-> op, arg |-> arg]

\* a step of the user (an event handler runs)
UserStep(op, arg) ==
  /\ mounted
  /\ mounted' = mounted
  /\ budget > 0
  /\ budget' = budget - 1
  /\ last' = Step(op, arg)
  /\ lastSort' = lastSort

\* a step of the environment (a timer expires, a fetch settles)
SystemStep(op, arg) ==
  /\ mounted' = mounted
  /\ budget' = budget
  /\ last' = Step(op, arg)
  /\ lastSort' = lastSort

\* no sort has committed yet
NoSort == [from |-> <<>>, cur |-> <<>>, to |-> <<>>, field |-> "", dir |-> 0,
           orig |-> <<>>, chain |-> FALSE]

\* the step in which sortAllReferences settles; so is the pending call.
\* chain: this commit follows a commit of a sort by the same field, and both
\* sorted the collection as it was, with no other commit in between; orig is
\* the collection before the earlier one
SortStep(op, ok, so) ==
  /\ mounted' = mounted
  /\ budget' = budget
  /\ last' = Step(op, [ok |-> ok, cur |-> so.cur, field |-> so.field, dir |-> so.dir])
  /\ lastSort' = IF emitted' # <<>>
                 THEN [from |-> value, cur |-> so.cur, to |-> value',
                       field |-> so.field, dir |-> so.dir,
                       orig |-> lastSort.from,
                       chain |-> /\ lastSort.dir # 0
                                 /\ lastSort.from = lastSort.cur
                                 /\ lastSort.to = value
                                 /\ so.cur = value
                                 /\ so.field = lastSort.field]
                 ELSE lastSort

\* variant: the effect clears the pending timer and starts none
DebounceEffectCleanupOnly(ts, text, val) == {}

\* useEffect(..., [findValue, searchForItems]): searchForItems is a new
\* function in every render (schemaTypes is rebuilt), so after every render
\* the cleanup clears the pending timer and a new one is started
DebounceEffect(ts, text, val) == {[text |-> text, val |-> val]}

\* last conjunct of every action: the effects of the render that follows;
\* forced: a setter received a new array, which always re-renders; an
\* unmounted component does not render
Render(ts, forced) ==
  /\ timers' = IF ~mounted THEN ts
               ELSE IF forced \/ view' # view
               THEN DebounceEffect(ts, findValue', RefIds(value'))
               ELSE ts
  /\ issued' = IF findValue' # findValue THEN 0
               ELSE IF Len(queries') > Len(queries) /\ issued < MaxIssued THEN issued + 1
               ELSE issued

\* the state after the first render and its effects
Mounted(ms, n) ==
  /\ \E m \in ms : docs = m.docs /\ cfg = m.cfg /\ value = m.value
  /\ findValue = <<>>
  /\ findData = <<>>
  /\ isSearching = FALSE
  /\ dangerMode = FALSE
  /\ sortMode = FALSE
  /\ sortDataType = ""
  /\ sortDataList = <<>>
  /\ alreadySorted = FALSE
  /\ isSorting = FALSE
  /\ error = "none"
  /\ timers = DebounceEffect({}, <<>>, RefIds(value))
  /\ queries = <<>>
  /\ checks = <<>>
  /\ sorts = <<>>
  /\ emitted = <<>>
  /\ last = Step("mount", 0)
  /\ budget = n
  /\ mounted = TRUE
  /\ issued = 0
  /\ lastSort = NoSort

Init == Mounted(Mounts, MaxUser)

DeepInit == Mounted(DeepMounts, MaxUserDeep)

LongInit == Mounted(LongMounts, MaxUserLong)

LiveInit == Mounted(DeepMounts, MaxUserLive)

ReplaceInit == Mounted(ReplaceMounts, MaxUserReplace) \/ Mounted(DeepMounts, MaxUserLive)

(***************************************************************************)
(* SearchController.                                                       *)
(***************************************************************************)
RemoveAt(s, i) == SubSeq(s, 1, i - 1) \o SubSeq(s, i + 1, Len(s))

\* TextInput onChange: setFindValue(e.target.value)
TypeText(t) ==
  /\ ~sortMode
  /\ ~isSearching
  /\ t # findValue
  /\ findValue' = t
  /\ emitted' = <<>>
  /\ UserStep("TypeText", 0)
  /\ UNCHANGED <<docs, cfg, value, findData, isSearching, dangerMode, sortMode,
                 sortDataType, sortDataList, alreadySorted, isSorting, error,
                 queries, checks, sorts>>
  /\ Render(timers, FALSE)

\* keydown Escape: setFindValue('')
PressEscape ==
  /\ cfg.enableKeyboardShortcuts
  /\ findValue # <<>>
  /\ findValue' = <<>>
  /\ emitted' = <<>>
  /\ UserStep("PressEscape", 0)
  /\ UNCHANGED <<docs, cfg, value, findData, isSearching, dangerMode, sortMode,
                 sortDataType, sortDataList, alreadySorted, isSorting, error,
                 queries, checks, sorts>>
  /\ Render(timers, FALSE)

\* the debounce timer fires: searchForItems(findValue) of the render that
\* started the timer, up to the await of client.fetch
TimerFire(tm) ==
  /\ tm \in timers
  /\ IF Trim(tm.text) = <<>>
     THEN /\ findData' = <<>>
          /\ UNCHANGED <<isSearching, error, queries>>
          /\ SystemStep("TimerFire", "empty")
          /\ UNCHANGED <<docs, cfg, value, findValue, dangerMode, sortMode,
                         sortDataType, sortDataList, alreadySorted, isSorting,
                         checks, sorts>>
          /\ emitted' = <<>>
          /\ Render(timers \ {tm}, TRUE)
     ELSE /\ Len(queries) < MaxInFlight
          /\ isSearching' = TRUE
          /\ error' = "none"
          /\ queries' = Append(queries, [text |-> tm.text, val |-> tm.val, stale |-> FALSE])
          /\ SystemStep("TimerFire", "query")
          /\ UNCHANGED <<docs, cfg, value, findValue, findData, dangerMode, sortMode,
                         sortDataType, sortDataList, alreadySorted, isSorting,
                         checks, sorts>>
          /\ emitted' = <<>>
          /\ Render(timers \ {tm}, FALSE)

\* items.filter(item => !value.some(ref => ref._ref === item._id)), with the
\* value of the render that created searchForItems
SmartFilter(items, val, filterExisting) ==
  IF filterExisting /\ val # {}
  THEN SelectSeq(items, LAMBDA id : id \notin val)
  ELSE items

\* a query older than one that has resolved is stale
MarkStale(qs, i) ==
  [j \in 1..Len(qs) |-> IF j < i THEN [qs[j] EXCEPT !.stale = TRUE] ELSE qs[j]]

\* variant: without the finally block, a failed search leaves isSearching set
QueryResolveNoFinally(i, ok) ==
  /\ i \in 1..Len(queries)
  /\ LET q == queries[i]
     IN  /\ queries' = RemoveAt(MarkStale(queries, i), i)
         /\ IF ~mounted
            THEN UNCHANGED <<findData, error, isSearching>>
            ELSE IF ok
                 THEN /\ findData' = SmartFilter(StoreSearch(docs, q.text,
                                                             cfg.maxSearchResults),
                                                 q.val, cfg.filterExisting)
                      /\ error' = error
                      /\ isSearching' = FALSE
                 ELSE /\ findData' = <<>>
                      /\ error' = "search"
                      /\ isSearching' = isSearching
         /\ SystemStep("QueryResolve", [ok |-> ok, stale |-> q.stale, text |-> q.text])
  /\ emitted' = <<>>
  /\ UNCHANGED <<docs, cfg, value, findValue, dangerMode, sortMode, sortDataType,
                 sortDataList, alreadySorted, isSorting, checks, sorts>>
  /\ Render(timers, TRUE)

\* client.fetch of query i settles: the rest of searchForItems; the setters
\* of an unmounted component change nothing
QueryResolve(i, ok) ==
  /\ i \in 1..Len(queries)
  /\ LET q == queries[i]
     IN  /\ queries' = RemoveAt(MarkStale(queries, i), i)
         /\ IF ~mounted
            THEN UNCHANGED <<findData, error, isSearching>>
            ELSE /\ IF ok
                    THEN /\ findData' = SmartFilter(StoreSearch(docs, q.text,
                                                                cfg.maxSearchResults),
                                                    q.val, cfg.filterExisting)
                         /\ error' = error
                    ELSE /\ findData' = <<>>
                         /\ error' = "search"
                 /\ isSearching' = FALSE
         /\ SystemStep("QueryResolve", [ok |-> ok, stale |-> q.stale, text |-> q.text])
  /\ emitted' = <<>>
  /\ UNCHANGED <<docs, cfg, value, findValue, dangerMode, sortMode, sortDataType,
                 sortDataList, alreadySorted, isSorting, checks, sorts>>
  /\ Render(timers, TRUE)

(***************************************************************************)
(* MutationController.                                                     *)
(***************************************************************************)
SetPatch(refs) == [type |-> "set", value |-> refs]
UnsetPatch == [type |-> "unset", value |-> <<>>]

\* variant: the duplicate filter is left out
DedupByRefNone(refs) == refs

\* newValues.filter((ref, index, self) =>
\*   self.findIndex((t) => t._ref === ref._ref) === index)
DedupByRef(refs) ==
  KeepIdx(refs, {i \in 1..Len(refs) : FindIndexRef(refs, refs[i].ref) = i}, 1)

\* variant: the new references are put in front of the existing ones
AddAllValueInFront(cur, found, ks) ==
  DedupByRef([i \in 1..Len(found) |-> MkRef(found[i], ks[i])] \o cur)

\* the collection addAllReferences commits; ks are the generated keys
AddAllValue(cur, found, ks) ==
  DedupByRef(cur \o [i \in 1..Len(found) |-> MkRef(found[i], ks[i])])

\* variant: one commit per result instead of one commit for all
AddAllReferencesOneByOne(ks) ==
  /\ findData # <<>>
  /\ value' = AddAllValue(value, findData, ks)
  /\ emitted' = [n \in 1..Len(findData) |->
                   SetPatch(AddAllValue(value, SubSeq(findData, 1, n), SubSeq(ks, 1, n)))]
  /\ findValue' = <<>>
  /\ UNCHANGED <<docs, cfg, findData, isSearching, dangerMode, sortMode, sortDataType,
                 sortDataList, alreadySorted, isSorting, error, queries, checks, sorts>>

\* addAllReferences
AddAllReferences(ks) ==
  /\ findData # <<>>
  /\ value' = AddAllValue(value, findData, ks)
  /\ emitted' = <<SetPatch(value')>>
  /\ findValue' = <<>>
  /\ UNCHANGED <<docs, cfg, findData, isSearching, dangerMode, sortMode, sortDataType,
                 sortDataList, alreadySorted, isSorting, error, queries, checks, sorts>>

\* "Add All" button
ClickAddAll ==
  /\ findValue # <<>> /\ findData # <<>>
  /\ cfg.allowBulkAdd
  /\ ~isSearching
  /\ \E ks \in [1..Len(findData) -> Keys] : AddAllReferences(ks)
  /\ UserStep("ClickAddAll", Len(value) + Len(findData) - Len(value'))
  /\ Render(timers, FALSE)

\* keydown Ctrl/Cmd+Enter
PressCtrlEnter ==
  /\ cfg.enableKeyboardShortcuts
  /\ findData # <<>>
  /\ \E ks \in [1..Len(findData) -> Keys] : AddAllReferences(ks)
  /\ UserStep("PressCtrlEnter", Len(value) + Len(findData) - Len(value'))
  /\ Render(timers, FALSE)

\* variant: the added item is not taken out of the search results
ClickResultKeepsItem(i, k) ==
  /\ findValue # <<>> /\ findData # <<>>
  /\ i \in 1..Len(findData)
  /\ cfg.allowIndividualAdd
  /\ IF findData[i] \in RefIds(value)
     THEN /\ UNCHANGED <<value, findData>>
          /\ emitted' = <<>>
          /\ UserStep("ClickResult", [id |-> findData[i], added |-> FALSE])
          /\ UNCHANGED <<docs, cfg, findValue, isSearching, dangerMode, sortMode,
                         sortDataType, sortDataList, alreadySorted, isSorting, error,
                         queries, checks, sorts>>
          /\ Render(timers, FALSE)
     ELSE /\ value' = Append(value, MkRef(findData[i], k))
          /\ emitted' = <<SetPatch(value')>>
          /\ findData' = findData
          /\ UserStep("ClickResult", [id |-> findData[i], added |-> TRUE])
          /\ UNCHANGED <<docs, cfg, findValue, isSearching, dangerMode, sortMode,
                         sortDataType, sortDataList, alreadySorted, isSorting, error,
                         queries, checks, sorts>>
          /\ Render(timers, TRUE)

\* click on search result i: addSingleReference(item)
ClickResult(i, k) ==
  /\ findValue # <<>> /\ findData # <<>>
  /\ i \in 1..Len(findData)
  /\ cfg.allowIndividualAdd
  /\ IF findData[i] \in RefIds(value)
     THEN /\ UNCHANGED <<value, findData>>
          /\ emitted' = <<>>
          /\ UserStep("ClickResult", [id |-> findData[i], added |-> FALSE])
          /\ UNCHANGED <<docs, cfg, findValue, isSearching, dangerMode, sortMode,
                         sortDataType, sortDataList, alreadySorted, isSorting, error,
                         queries, checks, sorts>>
          /\ Render(timers, FALSE)
     ELSE /\ value' = Append(value, MkRef(findData[i], k))
          /\ emitted' = <<SetPatch(value')>>
          /\ findData' = SelectSeq(findData, LAMBDA id : id # findData[i])
          /\ UserStep("ClickResult", [id |-> findData[i], added |-> TRUE])
          /\ UNCHANGED <<docs, cfg, findValue, isSearching, dangerMode, sortMode,
                         sortDataType, sortDataList, alreadySorted, isSorting, error,
                         queries, checks, sorts>>
          /\ Render(timers, TRUE)

\* variant: the buttons are rendered whatever the search text is
ActionButtonsWithText == value # <<>>

\* the buttons for existing references are rendered
ActionButtons == findValue = <<>> /\ value # <<>>

\* lock button: setDangerMode(!dangerMode)
ClickLock ==
  /\ ActionButtons /\ ~dangerMode /\ ~sortMode
  /\ dangerMode' = ~dangerMode
  /\ emitted' = <<>>
  /\ UserStep("ClickLock", 0)
  /\ UNCHANGED <<docs, cfg, value, findValue, findData, isSearching, sortMode,
                 sortDataType, sortDataList, alreadySorted, isSorting, error,
                 queries, checks, sorts>>
  /\ Render(timers, FALSE)

\* cancel button of danger mode and of sort mode
ClickCancel ==
  /\ ActionButtons /\ (dangerMode \/ sortMode)
  /\ dangerMode' = FALSE
  /\ sortMode' = FALSE
  /\ emitted' = <<>>
  /\ UserStep("ClickCancel", 0)
  /\ UNCHANGED <<docs, cfg, value, findValue, findData, isSearching,
                 sortDataType, sortDataList, alreadySorted, isSorting, error,
                 queries, checks, sorts>>
  /\ Render(timers, FALSE)

\* variant: the answer of window.confirm is ignored
DeleteAllReferencesUnasked(confirmed) ==
  /\ value' = <<>>
  /\ emitted' = <<UnsetPatch>>
  /\ dangerMode' = FALSE

\* variant: an accepted removal leaves danger mode on
DeleteAllReferencesKeepsMode(confirmed) ==
  IF confirmed
  THEN /\ value' = <<>>
       /\ emitted' = <<UnsetPatch>>
       /\ dangerMode' = dangerMode
  ELSE /\ UNCHANGED <<value, dangerMode>>
       /\ emitted' = <<>>

\* deleteAllReferences; confirmed is the answer to window.confirm
DeleteAllReferences(confirmed) ==
  IF confirmed
  THEN /\ value' = <<>>
       /\ emitted' = <<UnsetPatch>>
       /\ dangerMode' = FALSE
  ELSE /\ UNCHANGED <<value, dangerMode>>
       /\ emitted' = <<>>

\* "Remove all" button
ClickRemoveAll(confirmed) ==
  /\ ActionButtons /\ dangerMode
  /\ DeleteAllReferences(confirmed)
  /\ UserStep("ClickRemoveAll", confirmed)
  /\ UNCHANGED <<docs, cfg, findValue, findData, isSearching, sortMode,
                 sortDataType, sortDataList, alreadySorted, isSorting, error,
                 queries, checks, sorts>>
  /\ Render(timers, FALSE)

(***************************************************************************)
(* Sort mode.  getSortData reads the collection of the host document from  *)
(* the store when the fetch settles; a failed fetch yields [].             *)
(***************************************************************************)
\* a setter of useState called by a callback: new is the next state of a
\* mounted component, an unmounted one keeps cur
SetState(cur, new) == IF mounted THEN new ELSE cur

GetSortData(ok) == IF ok THEN Expand(docs, value) ELSE <<>>

Task(kind, field) == [kind |-> kind, field |-> field]

\* sort button of the default state: setSortMode(!sortMode); the effect on
\* [sortMode] calls updateDataList, which awaits getSortData
ClickSortIcon ==
  /\ ActionButtons /\ ~dangerMode /\ ~sortMode
  /\ Len(checks) < MaxChecks
  /\ sortMode' = ~sortMode
  /\ checks' = Append(checks, Task("udl", sortDataType))
  /\ emitted' = <<>>
  /\ UserStep("ClickSortIcon", 0)
  /\ UNCHANGED <<docs, cfg, value, findValue, findData, isSearching, dangerMode,
                 sortDataType, sortDataList, alreadySorted, isSorting, error,
                 queries, sorts>>
  /\ Render(timers, FALSE)

\* getSortData of updateDataList settles; with a catalog it goes on to
\* checkAlreadySorted of the same render, which awaits getSortData again
UpdateDataList(i, ok) ==
  /\ i \in 1..Len(checks)
  /\ checks[i].kind = "udl"
  /\ LET expandedValues == GetSortData(ok)
     IN  IF expandedValues = <<>>
         THEN /\ checks' = RemoveAt(checks, i)
              /\ UNCHANGED <<sortDataType, sortDataList, error>>
         ELSE IF expandedValues[1] = NoDoc
         THEN /\ checks' = RemoveAt(checks, i)
              /\ error' = SetState(error, "sortoptions")
              /\ UNCHANGED <<sortDataType, sortDataList>>
         ELSE LET keys == Catalog(expandedValues[1])
              IN  IF keys = <<>>
                  THEN /\ checks' = RemoveAt(checks, i)
                       /\ UNCHANGED <<sortDataType, sortDataList, error>>
                  ELSE /\ sortDataType' = SetState(sortDataType, keys[1])
                       /\ sortDataList' = SetState(sortDataList, keys)
                       /\ checks' = [checks EXCEPT ![i] = Task("check", checks[i].field)]
                       /\ error' = error
  /\ emitted' = <<>>
  /\ SystemStep("UpdateDataList", ok)
  /\ UNCHANGED <<docs, cfg, value, findValue, findData, isSearching, dangerMode,
                 sortMode, alreadySorted, isSorting, queries, sorts>>
  /\ Render(timers, sortDataList' # <<>> /\ checks' # RemoveAt(checks, i))

\* JSON.stringify(sortedRefs) === JSON.stringify(expandedRefs)
IsAscendingSorted(expandedRefs, f) == SortDocsAsc(expandedRefs, f) = expandedRefs

\* getSortData of checkAlreadySorted settles
CheckAlreadySorted(i, ok) ==
  /\ i \in 1..Len(checks)
  /\ checks[i].kind = "check"
  /\ checks' = RemoveAt(checks, i)
  /\ LET expandedRefs == GetSortData(ok)
     IN  IF expandedRefs = <<>> \/ ComparatorThrows(expandedRefs)
         THEN UNCHANGED alreadySorted
         ELSE alreadySorted' = SetState(alreadySorted,
                                        IsAscendingSorted(expandedRefs, checks[i].field))
  /\ emitted' = <<>>
  /\ SystemStep("CheckAlreadySorted", [field |-> checks[i].field, ok |-> ok])
  /\ UNCHANGED <<docs, cfg, value, findValue, findData, isSearching, dangerMode,
                 sortMode, sortDataType, sortDataList, isSorting, error, queries, sorts>>
  /\ Render(timers, FALSE)

\* the setTimeout of sortAllReferences expires: checkAlreadySorted starts
RecheckTimerFire(i) ==
  /\ i \in 1..Len(checks)
  /\ checks[i].kind = "timer"
  /\ checks' = [checks EXCEPT ![i] = Task("check", checks[i].field)]
  /\ emitted' = <<>>
  /\ SystemStep("RecheckTimerFire", 0)
  /\ UNCHANGED <<docs, cfg, value, findValue, findData, isSearching, dangerMode,
                 sortMode, sortDataType, sortDataList, alreadySorted, isSorting,
                 error, queries, sorts, timers, issued>>

\* Select onChange: setSortDataType(event.target.value)
SelectField(f) ==
  /\ sortMode
  /\ ~isSorting
  /\ f \in Range(sortDataList)
  /\ f # sortDataType
  /\ sortDataType' = f
  /\ emitted' = <<>>
  /\ UserStep("SelectField", f)
  /\ UNCHANGED <<docs, cfg, value, findValue, findData, isSearching, dangerMode,
                 sortMode, sortDataList, alreadySorted, isSorting, error,
                 queries, checks, sorts>>
  /\ Render(timers, FALSE)

\* "Sort" button: sortAllReferences up to the await of getSortData
ClickSort ==
  /\ ActionButtons /\ ~dangerMode /\ sortMode
  /\ ~(isSorting \/ sortDataType = "")
  /\ isSorting' = TRUE
  /\ error' = "none"
  /\ sorts' = Append(sorts, [cur |-> value, field |-> sortDataType,
                              dir |-> IF alreadySorted THEN -1 ELSE 1])
  /\ emitted' = <<>>
  /\ UserStep("ClickSort", 0)
  /\ UNCHANGED <<docs, cfg, value, findValue, findData, isSearching, dangerMode,
                 sortMode, sortDataType, sortDataList, alreadySorted, queries, checks>>
  /\ Render(timers, FALSE)

\* refMap.get(id): the last reference of curRefs that points at id, if any
RefMapHas(curRefs, id) == \E j \in 1..Len(curRefs) : curRefs[j].ref = id
RefMapGet(curRefs, id) ==
  curRefs[CHOOSE j \in 1..Len(curRefs) :
            /\ curRefs[j].ref = id
            /\ \A k \in (j + 1)..Len(curRefs) : curRefs[k].ref # id]

\* sortedRefs.map(doc => refMap.get(doc._id)).filter(Boolean)
OrganizedRefs(curRefs, sortedRefs) ==
  LET hit == {i \in 1..Len(sortedRefs) : RefMapHas(curRefs, DocId(sortedRefs[i]))}
      kept == KeepIdx(sortedRefs, hit, 1)
  IN  [i \in 1..Len(kept) |-> RefMapGet(curRefs, DocId(kept[i]))]

\* the collection sortAllReferences commits
SortedValue(curRefs, expandedRefs, f, dir) ==
  OrganizedRefs(curRefs, SortDocs(expandedRefs, f, dir))

\* variant: the guard on an empty expandedRefs is left out
SortAllReferencesUnguarded(i, ok) ==
  /\ i \in 1..Len(sorts)
  /\ sorts' = RemoveAt(sorts, i)
  /\ LET so == sorts[i]
         expandedRefs == GetSortData(ok)
     IN  IF \E j \in 1..Len(expandedRefs) : expandedRefs[j] = NoDoc
         THEN /\ error' = SetState(error, "sort")
              /\ emitted' = <<>>
              /\ UNCHANGED <<value, checks>>
         ELSE /\ Len(checks) < MaxChecks
              /\ value' = SortedValue(so.cur, expandedRefs, so.field, so.dir)
              /\ emitted' = <<SetPatch(value')>>
              /\ checks' = Append(checks, Task("timer", so.field))
              /\ error' = error
  /\ isSorting' = SetState(isSorting, FALSE)
  /\ SortStep("SortAllReferences", ok, sorts[i])
  /\ UNCHANGED <<docs, cfg, findValue, findData, isSearching, dangerMode, sortMode,
                 sortDataType, sortDataList, alreadySorted, queries>>
  /\ Render(timers, FALSE)

\* getSortData of sortAllReferences settles: the rest of the function
SortAllReferences(i, ok) ==
  /\ i \in 1..Len(sorts)
  /\ sorts' = RemoveAt(sorts, i)
  /\ LET so == sorts[i]
         expandedRefs == GetSortData(ok)
     IN  IF expandedRefs = <<>>
         THEN /\ error' = SetState(error, "nodata")
              /\ emitted' = <<>>
              /\ UNCHANGED <<value, checks>>
         ELSE IF \E j \in 1..Len(expandedRefs) : expandedRefs[j] = NoDoc
         THEN /\ error' = SetState(error, "sort")
              /\ emitted' = <<>>
              /\ UNCHANGED <<value, checks>>
         ELSE /\ Len(checks) < MaxChecks
              /\ value' = SortedValue(so.cur, expandedRefs, so.field, so.dir)
              /\ emitted' = <<SetPatch(value')>>
              /\ checks' = Append(checks, Task("timer", so.field))
              /\ error' = error
  /\ isSorting' = SetState(isSorting, FALSE)
  /\ SortStep("SortAllReferences", ok, sorts[i])
  /\ UNCHANGED <<docs, cfg, findValue, findData, isSearching, dangerMode, sortMode,
                 sortDataType, sortDataList, alreadySorted, queries>>
  /\ Render(timers, FALSE)

\* the component unmounts: the cleanups of the effects run (clearTimeout of
\* the debounce timer, removeEventListener); fetches in flight and the
\* setTimeout of sortAllReferences have no cleanup
Unmount ==
  /\ mounted
  /\ mounted' = FALSE
  /\ timers' = {}
  /\ emitted' = <<>>
  /\ budget > 0
  /\ budget' = budget - 1
  /\ last' = Step("Unmount", 0)
  /\ UNCHANGED <<docs, cfg, value, findValue, findData, isSearching, dangerMode,
                 sortMode, sortDataType, sortDataList, alreadySorted, isSorting,
                 error, queries, checks, sorts, issued, lastSort>>

Typing == \E t \in Texts : TypeText(t)
TimerFires == \E tm \in timers : TimerFire(tm)
QueryResolves == \E i \in 1..Len(queries), ok \in BOOLEAN : QueryResolve(i, ok)
ClickResults == \E i \in 1..Len(findData), k \in Keys : ClickResult(i, k)
ClickRemoveAlls == \E confirmed \in BOOLEAN : ClickRemoveAll(confirmed)
UpdateDataLists == \E i \in 1..Len(checks), ok \in BOOLEAN : UpdateDataList(i, ok)
CheckAlreadySorteds == \E i \in 1..Len(checks), ok \in BOOLEAN : CheckAlreadySorted(i, ok)
RecheckTimerFires == \E i \in 1..Len(checks) : RecheckTimerFire(i)
SelectFields == \E f \in Range(sortDataList) : SelectField(f)
SortAllReferencesSettles == \E i \in 1..Len(sorts), ok \in BOOLEAN : SortAllReferences(i, ok)

Next ==
  \/ Typing
  \/ PressEscape
  \/ TimerFires
  \/ QueryResolves
  \/ ClickAddAll
  \/ PressCtrlEnter
  \/ ClickResults
  \/ ClickLock
  \/ ClickCancel
  \/ ClickRemoveAlls
  \/ ClickSortIcon
  \/ UpdateDataLists
  \/ CheckAlreadySorteds
  \/ RecheckTimerFires
  \/ SelectFields
  \/ ClickSort
  \/ SortAllReferencesSettles
  \/ Unmount

Spec == Init /\ [][Next]_vars

\* the same component on one host document, followed for more user events
DeepSpec == DeepInit /\ [][Next]_vars

\* one host document followed through a remove-all and a new add
LongSpec == LongInit /\ [][Next]_vars

\* one host document followed through a remove-all, a new add and a second
\* visit of sort mode; the fully configured host document of DeepMounts is
\* followed for MaxUserLive events
ReplaceSpec == ReplaceInit /\ [][Next]_vars

\* the scheduling of the browser and of the store: a pending timer expires,
\* a fetch in flight settles (it resolves or it is rejected)
Fairness == WF_vars(TimerFires) /\ WF_vars(QueryResolves)

\* the component under fair scheduling
LiveSpec == LiveInit /\ [][Next]_vars /\ Fairness

(***************************************************************************)
(* The original component (src/src/AdvancedRefArray.tsx).  It uses the     *)
(* same state; isSearching, isSorting, error, timers and cfg do not exist  *)
(* there and keep their initial values.                                    *)
(***************************************************************************)
LegacyMounts == {
  Mount(DocsPlain, DefaultCfg, <<>>),
  Mount(DocsPlain, DefaultCfg, <<MkRef("p1", "k1"), MkRef("p2", "k2")>>),
  Mount(DocsTie, DefaultCfg, <<MkRef("p3", "k1"), MkRef("p1", "k2")>>),
  Mount(DocsDangling, DefaultCfg, <<MkRef("p3", "k1"), MkRef("p1", "k2")>>),
  Mount(DocsPlain, DefaultCfg, <<MkRef("p2", "k1"), MkRef("p3", "k2")>>)}

LegacyInit ==
  /\ \E m \in LegacyMounts : docs = m.docs /\ cfg = m.cfg /\ value = m.value
  /\ findValue = <<>>
  /\ findData = <<>>
  /\ isSearching = FALSE
  /\ dangerMode = FALSE
  /\ sortMode = FALSE
  /\ sortDataType = ""
  /\ sortDataList = <<>>
  /\ alreadySorted = FALSE
  /\ isSorting = FALSE
  /\ error = "none"
  /\ timers = {}
  /\ queries = <<>>
  /\ checks = <<>>
  /\ sorts = <<>>
  /\ emitted = <<>>
  /\ last = Step("mount", 0)
  /\ budget = MaxUser
  /\ mounted = TRUE
  /\ issued = 0
  /\ lastSort = NoSort

LegacyFixed == UNCHANGED <<docs, cfg, isSearching, isSorting, error, timers, issued>>

\* TextInput onChange: setFindValue; the effect on [findValue] calls
\* searchForItems at once, which fetches unless the text is ''
LegacyTypeText(t) ==
  /\ ~sortMode
  /\ t # findValue
  /\ findValue' = t
  /\ IF t # <<>>
     THEN /\ Len(queries) < MaxInFlight
          /\ queries' = Append(queries, [text |-> t, val |-> {}, stale |-> FALSE])
          /\ UNCHANGED findData
     ELSE /\ findData' = <<>>
          /\ UNCHANGED queries
  /\ emitted' = <<>>
  /\ UserStep("LegacyTypeText", 0)
  /\ UNCHANGED <<value, dangerMode, sortMode, sortDataType, sortDataList,
                 alreadySorted, checks, sorts>>
  /\ LegacyFixed

\* client.fetch of searchForItems settles: setFindData(items); a rejection
\* is not handled and changes nothing
LegacyQueryResolve(i, ok) ==
  /\ i \in 1..Len(queries)
  /\ queries' = RemoveAt(MarkStale(queries, i), i)
  /\ findData' = IF ok THEN StoreSearch(docs, queries[i].text, Len(DocOrder))
                 ELSE findData
  /\ emitted' = <<>>
  /\ SystemStep("LegacyQueryResolve", [ok |-> ok, stale |-> queries[i].stale])
  /\ UNCHANGED <<value, findValue, dangerMode, sortMode, sortDataType, sortDataList,
                 alreadySorted, checks, sorts>>
  /\ LegacyFixed

\* the collection addReferences commits
LegacyAddValue(cur, found, ks) ==
  DedupByRef(cur \o [i \in 1..Len(found) |-> MkRef(found[i], ks[i])])

\* "Add" button: addReferences; setFindValue('') makes the effect clear the
\* results
LegacyClickAdd ==
  /\ findValue # <<>> /\ findData # <<>>
  /\ \E ks \in [1..Len(findData) -> Keys] : value' = LegacyAddValue(value, findData, ks)
  /\ emitted' = <<SetPatch(value')>>
  /\ findValue' = <<>>
  /\ findData' = <<>>
  /\ UserStep("LegacyClickAdd", Len(value) + Len(findData) - Len(value'))
  /\ UNCHANGED <<dangerMode, sortMode, sortDataType, sortDataList, alreadySorted,
                 queries, checks, sorts>>
  /\ LegacyFixed

\* lock button
LegacyClickLock ==
  /\ ActionButtons /\ ~dangerMode /\ ~sortMode
  /\ dangerMode' = ~dangerMode
  /\ emitted' = <<>>
  /\ UserStep("LegacyClickLock", 0)
  /\ UNCHANGED <<value, findValue, findData, sortMode, sortDataType, sortDataList,
                 alreadySorted, queries, checks, sorts>>
  /\ LegacyFixed

\* cancel button
LegacyClickCancel ==
  /\ ActionButtons /\ (dangerMode \/ sortMode)
  /\ dangerMode' = FALSE
  /\ sortMode' = FALSE
  /\ emitted' = <<>>
  /\ UserStep("LegacyClickCancel", 0)
  /\ UNCHANGED <<value, findValue, findData, sortDataType, sortDataList,
                 alreadySorted, queries, checks, sorts>>
  /\ LegacyFixed

\* "Remove all" button: onClick={() => deleteAllReferences} evaluates the
\* callback without calling it
LegacyClickRemoveAll ==
  /\ ActionButtons /\ dangerMode
  /\ emitted' = <<>>
  /\ UserStep("LegacyClickRemoveAll", 0)
  /\ UNCHANGED <<value, findValue, findData, dangerMode, sortMode, sortDataType,
                 sortDataList, alreadySorted, queries, checks, sorts>>
  /\ LegacyFixed

\* sort button of the default state; the effect on [sortMode] calls
\* updateDataList
LegacyClickSortIcon ==
  /\ ActionButtons /\ ~dangerMode /\ ~sortMode
  /\ Len(checks) < MaxChecks
  /\ sortMode' = ~sortMode
  /\ checks' = Append(checks, Task("udl", sortDataType))
  /\ emitted' = <<>>
  /\ UserStep("LegacyClickSortIcon", 0)
  /\ UNCHANGED <<value, findValue, findData, dangerMode, sortDataType, sortDataList,
                 alreadySorted, queries, sorts>>
  /\ LegacyFixed

\* Object.keys(expandedValues[0]).sort()
LegacyCatalog(doc) == SortKeys(DOMAIN doc)

\* getSortData of updateDataList settles; checkAlreadySorted of the same
\* render is started (not awaited)
LegacyUpdateDataList(i, ok) ==
  /\ i \in 1..Len(checks)
  /\ checks[i].kind = "udl"
  /\ LET expandedValues == GetSortData(ok)
     IN  IF expandedValues = <<>> \/ expandedValues[1] = NoDoc
         THEN /\ checks' = RemoveAt(checks, i)
              /\ UNCHANGED <<sortDataType, sortDataList>>
         ELSE /\ sortDataType' = LegacyCatalog(expandedValues[1])[1]
              /\ sortDataList' = LegacyCatalog(expandedValues[1])
              /\ checks' = [checks EXCEPT ![i] = Task("check", checks[i].field)]
  /\ emitted' = <<>>
  /\ SystemStep("LegacyUpdateDataList", ok)
  /\ UNCHANGED <<value, findValue, findData, dangerMode, sortMode, alreadySorted,
                 queries, sorts>>
  /\ LegacyFixed

\* a < b of JavaScript: null counts as 0 against a number, undefined is NaN
LegacyLess(av, bv) ==
  \/ JsLess(av, bv)
  \/ av = Null /\ bv.t = "num" /\ 0 < bv.n
  \/ av.t = "num" /\ bv = Null /\ av.n < 0

\* the comparator of the original sortAllReferences; desc is alreadySorted
LegacyCompare(a, b, f, desc) ==
  LET av == Field(a, f)
      bv == Field(b, f)
  IN  IF desc
      THEN IF LegacyLess(bv, av) THEN -1 ELSE IF LegacyLess(av, bv) THEN 1 ELSE 0
      ELSE IF LegacyLess(av, bv) THEN -1 ELSE IF LegacyLess(bv, av) THEN 1 ELSE 0

LegacyInsertSorted(x, s, f, desc) ==
  LET after == {i \in 1..Len(s) : LegacyCompare(x, s[i], f, desc) < 0}
      pos == IF after = {} THEN Len(s) + 1
             ELSE CHOOSE i \in after : \A j \in after : i <= j
  IN  SubSeq(s, 1, pos - 1) \o <<x>> \o SubSeq(s, pos, Len(s))

RECURSIVE LegacySortDocs(_, _, _)
\* expandedRefs.toSorted(comparator)
LegacySortDocs(s, f, desc) ==
  IF s = <<>> THEN <<>>
  ELSE LegacyInsertSorted(s[Len(s)], LegacySortDocs(SubSeq(s, 1, Len(s) - 1), f, desc),
                          f, desc)

\* getSortData of checkAlreadySorted settles; a TypeError of the comparator
\* rejects the promise and changes nothing
LegacyCheckAlreadySorted(i, ok) ==
  /\ i \in 1..Len(checks)
  /\ checks[i].kind = "check"
  /\ checks' = RemoveAt(checks, i)
  /\ LET expandedRefs == GetSortData(ok)
     IN  IF expandedRefs = <<>> \/ ComparatorThrows(expandedRefs)
         THEN UNCHANGED alreadySorted
         ELSE alreadySorted' =
                (LegacySortDocs(expandedRefs, checks[i].field, FALSE) = expandedRefs)
  /\ emitted' = <<>>
  /\ SystemStep("LegacyCheckAlreadySorted", [field |-> checks[i].field, ok |-> ok])
  /\ UNCHANGED <<value, findValue, findData, dangerMode, sortMode, sortDataType,
                 sortDataList, queries, sorts>>
  /\ LegacyFixed

\* setTimeout(checkAlreadySorted, 1000) expires
LegacyRecheckTimerFire(i) ==
  /\ i \in 1..Len(checks)
  /\ checks[i].kind = "timer"
  /\ checks' = [checks EXCEPT ![i] = Task("check", checks[i].field)]
  /\ emitted' = <<>>
  /\ SystemStep("LegacyRecheckTimerFire", 0)
  /\ UNCHANGED <<value, findValue, findData, dangerMode, sortMode, sortDataType,
                 sortDataList, alreadySorted, queries, sorts>>
  /\ LegacyFixed

\* Select onChange
LegacySelectField(f) ==
  /\ sortMode
  /\ f \in Range(sortDataList)
  /\ f # sortDataType
  /\ sortDataType' = f
  /\ emitted' = <<>>
  /\ UserStep("LegacySelectField", f)
  /\ UNCHANGED <<value, findValue, findData, dangerMode, sortMode, sortDataList,
                 alreadySorted, queries, checks, sorts>>
  /\ LegacyFixed

\* "Sort" button: sortAllReferences up to the await of getSortData
LegacyClickSort ==
  /\ ActionButtons /\ ~dangerMode /\ sortMode
  /\ Len(sorts) < MaxSorts
  /\ sorts' = Append(sorts, [cur |-> value, field |-> sortDataType,
                              dir |-> IF alreadySorted THEN -1 ELSE 1])
  /\ emitted' = <<>>
  /\ UserStep("LegacyClickSort", 0)
  /\ UNCHANGED <<value, findValue, findData, dangerMode, sortMode, sortDataType,
                 sortDataList, alreadySorted, queries, checks>>
  /\ LegacyFixed

RECURSIVE LegacyOrganizedRefs(_, _)
\* newRefs.forEach(newRef => curRefs.forEach(curRef =>
\*   { if (newRef._id === curRef._ref) organizedRefs.push(curRef) }))
LegacyOrganizedRefs(curRefs, newRefs) ==
  IF newRefs = <<>> THEN <<>>
  ELSE SelectSeq(curRefs, LAMBDA r : r.ref = DocId(Head(newRefs)))
         \o LegacyOrganizedRefs(curRefs, Tail(newRefs))

\* the collection the original sortAllReferences commits
LegacySortedValue(curRefs, expandedRefs, f, desc) ==
  LegacyOrganizedRefs(curRefs, LegacySortDocs(expandedRefs, f, desc))

\* getSortData of sortAllReferences settles; a TypeError on a null document
\* rejects the promise and changes nothing
LegacySortAllReferences(i, ok) ==
  /\ i \in 1..Len(sorts)
  /\ sorts' = RemoveAt(sorts, i)
  /\ LET so == sorts[i]
         expandedRefs == GetSortData(ok)
     IN  IF expandedRefs = <<>> \/ \E j \in 1..Len(expandedRefs) : expandedRefs[j] = NoDoc
         THEN /\ emitted' = <<>>
              /\ UNCHANGED <<value, checks>>
         ELSE /\ Len(checks) < MaxChecks
              /\ value' = LegacySortedValue(so.cur, expandedRefs, so.field, so.dir = -1)
              /\ emitted' = <<SetPatch(value')>>
              /\ checks' = Append(checks, Task("timer", so.field))
  /\ SortStep("LegacySortAllReferences", ok, sorts[i])
  /\ UNCHANGED <<findValue, findData, dangerMode, sortMode, sortDataType, sortDataList,
                 alreadySorted, queries>>
  /\ LegacyFixed

LegacyTyping == \E t \in Texts : LegacyTypeText(t)
LegacyQueryResolves == \E i \in 1..Len(queries), ok \in BOOLEAN : LegacyQueryResolve(i, ok)
LegacyUpdateDataLists == \E i \in 1..Len(checks), ok \in BOOLEAN : LegacyUpdateDataList(i, ok)
LegacyCheckAlreadySorteds ==
  \E i \in 1..Len(checks), ok \in BOOLEAN : LegacyCheckAlreadySorted(i, ok)
LegacyRecheckTimerFires == \E i \in 1..Len(checks) : LegacyRecheckTimerFire(i)
LegacySelectFields == \E f \in Range(sortDataList) : LegacySelectField(f)
LegacySortAllReferencesSettles ==
  \E i \in 1..Len(sorts), ok \in BOOLEAN : LegacySortAllReferences(i, ok)

LegacyNext ==
  \/ LegacyTyping
  \/ LegacyQueryResolves
  \/ LegacyClickAdd
  \/ LegacyClickLock
  \/ LegacyClickCancel
  \/ LegacyClickRemoveAll
  \/ LegacyClickSortIcon
  \/ LegacyUpdateDataLists
  \/ LegacyCheckAlreadySorteds
  \/ LegacyRecheckTimerFires
  \/ LegacySelectFields
  \/ LegacyClickSort
  \/ LegacySortAllReferencesSettles

LegacySpec == LegacyInit /\ [][LegacyNext]_vars

(***************************************************************************)
(* Properties.                                                             *)
(***************************************************************************)
UserOps == {"TypeText", "PressEscape", "ClickAddAll", "PressCtrlEnter", "ClickResult",
            "ClickLock", "ClickCancel", "ClickRemoveAll", "ClickSortIcon",
            "SelectField", "ClickSort", "Unmount"}
AddAllOps == {"ClickAddAll", "PressCtrlEnter"}

Committed == emitted # <<>>

\* C1: the committed collection never holds two references to the same
\* document id, whatever adds, removals, sorts and query resolutions happened.
C1_NoDuplicateIds ==
  \A i, j \in 1..Len(value) : i # j => value[i].ref # value[j].ref

\* an add-all was committed whose results contained an id of the collection
C1_Witness ==
  /\ last.op \in AddAllOps
  /\ last.arg > 0
  /\ Committed
  /\ Len(value) >= 2

C3_NoLostUpdate ==
  [][(Committed' /\ emitted'[1].type = "set") => RefIds(value) \subseteq RefIds(value')]_vars

\* C4: the results of a query that resolves after a later dispatched query
\* has resolved are never written to the displayed results.
C4_StaleNeverDisplayed ==
  ~(last.op = "QueryResolve" /\ last.arg.ok /\ last.arg.stale)

\* C5: for a burst of text changes within one debounce window one timer is
\* pending, it carries the final text, and one query is issued for that text.
C5_OneQueryPerBurst ==
  /\ Cardinality(timers) <= 1
  /\ \A tm \in timers : tm.text = findValue
  /\ issued <= 1

\* C6: with hide-already-added enabled, the results written by a resolved
\* query hold no id that is in the collection at that moment.
C6_FilterUsesLiveSet ==
  (last.op = "QueryResolve" /\ last.arg.ok /\ cfg.filterExisting)
    => Range(findData) \cap RefIds(value) = {}

\* C7: an unset is committed only by the confirmed "Remove all" of danger
\* mode, and no user action taken outside danger mode empties the collection.
C7_RemoveAllGated ==
  [][/\ (Committed' /\ emitted'[1].type = "unset") =>
          (dangerMode /\ last'.op = "ClickRemoveAll" /\ last'.arg = TRUE)
     /\ (~dangerMode /\ value # <<>> /\ last'.op \in UserOps) => value' # <<>>
    ]_vars

\* the confirmed remove-all has emptied the collection
C7_Witness ==
  /\ last.op = "ClickRemoveAll"
  /\ last.arg = TRUE
  /\ emitted = <<UnsetPatch>>
  /\ value = <<>>
  /\ ~dangerMode

\* C8: in the original component a click on "Remove all" in danger mode
\* commits an unset, which clears the collection.
C8_LegacyRemoveAllClears ==
  last.op = "LegacyClickRemoveAll" => (emitted = <<UnsetPatch>> /\ value = <<>>)

\* C9: a sort commits the descending order when the collection is in
\* ascending order by the selected field, and the ascending order otherwise.
C9_ToggleByCurrentOrder ==
  [][(/\ last'.op = "SortAllReferences"
      /\ Committed'
      /\ checks = <<>>
      /\ last'.arg.cur = value)
       => value' = SortedValue(value, Expand(docs, value), last'.arg.field,
                               IF IsAscendingSorted(Expand(docs, value), last'.arg.field)
                               THEN -1 ELSE 1)
    ]_vars

\* C10: in sort mode with nothing pending, the direction flag tells whether
\* the collection is in ascending order by the selected field; checked where
\* the flag is freshest, right after a sortedness check has succeeded.
C10_FlagDerivedFromData ==
  (/\ sortMode
   /\ last.op = "CheckAlreadySorted" /\ last.arg.ok
   /\ sortDataType # ""
   /\ checks = <<>> /\ sorts = <<>>
   /\ value # <<>>
   /\ \A i \in 1..Len(value) : docs[value[i].ref] # NoDoc)
    => alreadySorted = IsAscendingSorted(Expand(docs, value), sortDataType)

\* C11: a sort whose fetch of the expanded documents failed or returned
\* nothing commits nothing: the collection is unchanged and, in the mounted
\* component, an error is shown and the sort controls are enabled again.
C11_NoCommitWithoutDocs ==
  [][(last'.op = "SortAllReferences" /\ (~last'.arg.ok \/ value = <<>>))
       => /\ value' = value
          /\ ~Committed'
          /\ mounted => /\ error' \in {"nodata", "sort"}
                        /\ ~isSorting'
                        /\ sortMode' = sortMode
    ]_vars

\* a sort of a non-empty collection has ended on a failed fetch
C11_Witness ==
  /\ last.op = "SortAllReferences"
  /\ ~last.arg.ok
  /\ value # <<>>
  /\ last.arg.cur = value
  /\ mounted
  /\ error = "nodata"
  /\ ~isSorting

SortOps == {"SortAllReferences", "LegacySortAllReferences"}

\* C12: in the collection a sort commits, no document without a value for
\* the sort field (null or missing) stands before a document that has one,
\* whichever direction the sort took.
C12_NullsLast ==
  (last.op \in SortOps /\ Committed)
    => \A i, j \in 1..Len(value) :
         (i < j /\ IsNullish(Field(docs[value[i].ref], last.arg.field)))
           => IsNullish(Field(docs[value[j].ref], last.arg.field))

\* the search results the render shows: findValue !== '' && findData.length
Displayed == IF findValue # <<>> THEN findData ELSE <<>>

\* C13: with the search text cleared nothing is displayed, and the results
\* that were in the controller while the text was cleared (they belong to a
\* query for a cleared text) are not displayed when new text is typed.
C13_ClearedStayEmpty ==
  [][/\ findValue' = <<>> => Displayed' = <<>>
     /\ (findValue = <<>> /\ findValue' # <<>>) => Displayed' = <<>>
    ]_vars

\* C14: a click on a displayed result whose id is in the collection commits
\* nothing and leaves the displayed results as they are; a click on any other
\* result makes one commit, the collection followed by one reference to that
\* id, and takes that id, and nothing else, out of the displayed results.
C14_AddOne ==
  [][last'.op = "ClickResult" =>
       /\ last'.arg.id \in Range(Displayed)
       /\ IF last'.arg.id \in RefIds(value)
          THEN /\ ~Committed'
               /\ value' = value
               /\ Displayed' = Displayed
          ELSE /\ emitted' = <<SetPatch(value')>>
               /\ Len(value') = Len(value) + 1
               /\ SubSeq(value', 1, Len(value)) = value
               /\ value'[Len(value')].ref = last'.arg.id
               /\ Displayed' = SelectSeq(Displayed, LAMBDA id : id # last'.arg.id)
    ]_vars

\* an add-one was committed and another result is still displayed
C14_Witness ==
  /\ last.op = "ClickResult"
  /\ last.arg.added
  /\ emitted = <<SetPatch(value)>>
  /\ Len(value) >= 2
  /\ Displayed # <<>>
  /\ last.arg.id \notin Range(Displayed)

\* C15: an add-all passes exactly one patch to onChange, a set of the whole
\* new collection, which holds the old collection and every result id.
C15_AddAllOneCommit ==
  [][last'.op \in AddAllOps =>
       /\ emitted' = <<SetPatch(value')>>
       /\ RefIds(value') = RefIds(value) \cup Range(findData)
       /\ SubSeq(value', 1, Len(value)) = value
    ]_vars

\* an add-all has added two results with its one commit
C15_Witness ==
  /\ last.op \in AddAllOps
  /\ last.arg = 0
  /\ Len(findData) >= 2
  /\ Len(emitted) = 1
  /\ emitted[1] = SetPatch(value)
  /\ Range(findData) \subseteq RefIds(value)

\* C16: the results displayed when a query has resolved are the raw results
\* of the store for its text without the ids of the collection, in raw order,
\* when hide-already-added is on, and the raw results when it is off.
C16_HideAlreadyAdded ==
  (last.op = "QueryResolve" /\ last.arg.ok /\ findValue # <<>>)
    => LET raw == StoreSearch(docs, last.arg.text, cfg.maxSearchResults)
       IN  Displayed = IF cfg.filterExisting
                      THEN SelectSeq(raw, LAMBDA id : id \notin RefIds(value))
                      ELSE raw

\* the state of the component (useState)
CompState == <<findValue, findData, isSearching, dangerMode, sortMode, sortDataType,
               sortDataList, alreadySorted, isSorting, error>>

\* the callbacks of timers
TimerOps == {"TimerFire", "RecheckTimerFire"}

\* C17: once the component has unmounted no timer callback runs, so no
\* query is dispatched by one, no search query is added to the ones in
\* flight, and no step changes the state of the component.
C17_DeadAfterUnmount ==
  [][~mounted =>
       /\ last'.op \notin TimerOps
       /\ Len(queries') <= Len(queries)
       /\ CompState' = CompState
    ]_vars

\* C18: when a query fails whose text is no longer the search text, the
\* error state and the results stay as they are.
C18_SupersededFailureDropped ==
  [][(last'.op = "QueryResolve" /\ ~last'.arg.ok /\ last'.arg.text # findValue)
       => (error' = error /\ findData' = findData)
    ]_vars

\* the user actions the render offers: the controls that are rendered and
\* not disabled, and the keys the keydown listener acts on
EnabledOps ==
  {op \in UserOps :
     /\ mounted
     /\ CASE op = "TypeText" -> ~sortMode /\ ~isSearching
          [] op = "PressEscape" -> cfg.enableKeyboardShortcuts /\ findValue # <<>>
          [] op = "ClickAddAll" ->
               findValue # <<>> /\ findData # <<>> /\ cfg.allowBulkAdd /\ ~isSearching
          [] op = "PressCtrlEnter" -> cfg.enableKeyboardShortcuts /\ findData # <<>>
          [] op = "ClickResult" ->
               findValue # <<>> /\ findData # <<>> /\ cfg.allowIndividualAdd
          [] op = "ClickLock" -> ActionButtons /\ ~dangerMode /\ ~sortMode
          [] op = "ClickCancel" -> ActionButtons /\ (dangerMode \/ sortMode)
          [] op = "ClickRemoveAll" -> ActionButtons /\ dangerMode
          [] op = "ClickSortIcon" -> ActionButtons /\ ~dangerMode /\ ~sortMode
          [] op = "SelectField" ->
               sortMode /\ ~isSorting /\ Range(sortDataList) \ {sortDataType} # {}
          [] op = "ClickSort" ->
               ActionButtons /\ ~dangerMode /\ sortMode /\ ~isSorting /\ sortDataType # ""
          [] op = "Unmount" -> TRUE}

\* the user actions that add displayed results
ResultOps == {"ClickAddAll", "PressCtrlEnter", "ClickResult"}

\* C19 as stated: a failed query sets the error, empties the results, clears
\* the searching flag, and every user action enabled before it is enabled
\* after it.
C19_FailureKeepsAllEnabled ==
  [][(last'.op = "QueryResolve" /\ ~last'.arg.ok /\ mounted)
       => /\ error' = "search"
          /\ findData' = <<>>
          /\ ~isSearching'
          /\ EnabledOps \subseteq EnabledOps'
    ]_vars

\* C19 amended: a failed query sets the error, empties the results, clears
\* the searching flag, and every user action enabled before it, other than
\* the adds of the results it has emptied, is enabled after it.
C19_FailureKeepsEnabled ==
  [][(last'.op = "QueryResolve" /\ ~last'.arg.ok /\ mounted)
       => /\ error' = "search"
          /\ findData' = <<>>
          /\ ~isSearching'
          /\ (EnabledOps \ ResultOps) \subseteq EnabledOps'
    ]_vars

\* a query has failed and the user can type and clear the text again
C19_Witness ==
  /\ last.op = "QueryResolve"
  /\ ~last.arg.ok
  /\ mounted
  /\ error = "search"
  /\ findData = <<>>
  /\ ~isSearching
  /\ {"TypeText", "PressEscape"} \subseteq EnabledOps

\* C20: when searchForItems runs for a text that is empty or only white
\* space, it issues no query and sets the results to empty; no query for
\* such a text is ever in flight.
C20_BlankTextNoQuery ==
  [][/\ ((last'.op = "TimerFire" /\ Trim(findValue) = <<>>)
          \/ (last'.op = "LegacyTypeText" /\ Trim(findValue') = <<>>))
        => (queries' = queries /\ findData' = <<>>)
     /\ \A i \in 1..Len(queries') : Trim(queries'[i].text) # <<>>
    ]_vars

\* C21: when an ascending sort by a field has committed a (non-empty)
\* collection and the sortedness check for that field has run on it, the
\* direction flag of the mounted component is true, ties included.
C21_CheckAfterAscendingSort ==
  (/\ last.op = "CheckAlreadySorted" /\ last.arg.ok
   /\ mounted
   /\ lastSort.dir = 1
   /\ lastSort.field = last.arg.field
   /\ lastSort.to = value
   /\ value # <<>>)
    => alreadySorted

\* the check has run after an ascending sort of documents that tie
C21_Witness ==
  /\ last.op = "CheckAlreadySorted" /\ last.arg.ok
  /\ mounted
  /\ lastSort.dir = 1
  /\ lastSort.field = last.arg.field
  /\ lastSort.to = value
  /\ Len(value) >= 2
  /\ Field(docs[value[1].ref], lastSort.field) = Field(docs[value[2].ref], lastSort.field)
  /\ alreadySorted

\* av stands before bv in the order of direction dir (1 ascending, -1
\* descending) without breaking it: a value that is missing stands last
Precedes(av, bv, dir) ==
  \/ IsNullish(bv)
  \/ /\ ~IsNullish(av)
     /\ IF dir = 1 THEN ~JsLess(bv, av) ELSE ~JsLess(av, bv)

\* refs is in the order of direction dir by field f
InOrder(refs, f, dir) ==
  \A i, j \in 1..Len(refs) :
    i < j => Precedes(Field(docs[refs[i].ref], f), Field(docs[refs[j].ref], f), dir)

C23_SortCommitsResolved ==
  [][(last'.op = "SortAllReferences" /\ last'.arg.ok /\ value # <<>>)
       => LET cur == last'.arg.cur
              resolved == {r \in RefIds(value) : docs[r] # NoDoc}
          IN  /\ emitted' = <<SetPatch(value')>>
              /\ Range(value') = {r \in Range(cur) : r.ref \in resolved}
              /\ Len(value') = Cardinality({r \in Range(cur) : r.ref \in resolved})
              /\ InOrder(value', last'.arg.field, last'.arg.dir)
              /\ error' # "sort"
    ]_vars

\* the operations that commit a set of the collection
SetOps == {"ClickResult", "ClickAddAll", "PressCtrlEnter", "SortAllReferences"}

\* C24: an add-one, an add-all or a sort leaves the key of every reference
\* that is in the collection before and after it as it was.
C24_KeysStable ==
  [][last'.op \in SetOps =>
       \A i \in 1..Len(value), j \in 1..Len(value') :
         value[i].ref = value'[j].ref => value[i].key = value'[j].key
    ]_vars

\* C25: when bulk add is not allowed, no user action, the keyboard shortcut
\* included, commits an add-all.
C25_BulkAddDisabled ==
  [][~cfg.allowBulkAdd => ~(last'.op \in AddAllOps /\ Committed')]_vars

\* C26: when updateDataList has run on an entry into sort mode, the catalog
\* is the sorted list of the field names of the first resolved document that
\* do not start with '_'; when nothing resolves the catalog is empty and
\* the Sort button cannot be used.
C26_CatalogRecomputed ==
  [][(last'.op = "UpdateDataList" /\ mounted)
       => LET e == IF last'.arg THEN Expand(docs, value) ELSE <<>>
          IN  IF e = <<>> \/ e[1] = NoDoc
              THEN sortDataList' = <<>> /\ "ClickSort" \notin EnabledOps'
              ELSE /\ sortDataList' = Catalog(e[1])
                   /\ Range(sortDataList') = {k \in DOMAIN e[1] : Head(FieldChars[k]) # "_"}
    ]_vars

\* C27: when the sortedness check has run on a collection of size 0 or 1,
\* the direction flag (of the mounted component) is true.
C27_TrivialIsSorted ==
  (last.op = "CheckAlreadySorted" /\ last.arg.ok /\ mounted /\ Len(value) <= 1)
    => alreadySorted

\* C28: the resolution of a query changes neither the text nor the
\* collection nor the configuration, so the re-render that follows it starts
\* no debounce timer: with the query resolved the controller is quiescent.
C28_ResolveStartsNoTimer ==
  [][(last'.op = "QueryResolve" /\ mounted) => timers' \subseteq timers]_vars

\* C29: while the component is mounted and a non-blank search text stays
\* as it is, a query for that text is eventually dispatched and settles:
\* the controller reaches Resolved (results written) or Failed (error set).
C29_EventuallySettled ==
  \A t \in Texts :
    (mounted /\ findValue = t /\ Trim(t) # <<>>)
      ~> \/ ~mounted
         \/ findValue # t
         \/ /\ last.op = "QueryResolve" /\ last.arg.text = t
            /\ ~isSearching
            /\ IF last.arg.ok THEN error # "search" ELSE error = "search" /\ findData = <<>>

\* the user has stopped and the query for the final text has resolved
C29_Witness ==
  /\ budget = 0
  /\ mounted
  /\ Trim(findValue) # <<>>
  /\ last.op = "QueryResolve" /\ last.arg.text = findValue /\ last.arg.ok
  /\ findData # <<>>
  /\ ~isSearching

\* C30: the collection a sort commits is a permutation of the collection at
\* the moment of the commit: the same reference ids and the same length.
C30_SortIsPermutation ==
  [][(last'.op \in SortOps /\ Committed')
       => /\ RefIds(value') = RefIds(value)
          /\ Len(value') = Len(value)
    ]_vars

\* C31: in every reachable state of the mounted component the searching flag
\* is true exactly when at least one dispatched query has neither resolved
\* nor failed, also when two queries overlap.
C31_SearchingIffInFlight ==
  mounted => (isSearching <=> queries # <<>>)

\* C32: in every reachable state danger mode and sort mode are not both on,
\* and sort mode is on only while the search text is empty.
C32_ModesExclusive ==
  /\ ~(dangerMode /\ sortMode)
  /\ sortMode => findValue = <<>>

\* sort mode has been entered after a search whose text was cleared
C32_Witness ==
  /\ mounted
  /\ last.op = "ClickSortIcon"
  /\ sortMode
  /\ ~dangerMode
  /\ findValue = <<>>
  /\ findData # <<>>

\* C33: whenever sort mode or danger mode is on, the user has an enabled
\* action that leaves the mode, possibly after clearing the search text: the
\* cancel button is rendered, or it is rendered once the text is cleared.
C33_ModeCanBeLeft ==
  (mounted /\ (sortMode \/ dangerMode))
    => \/ "ClickCancel" \in EnabledOps
       \/ findValue # <<>> /\ value # <<>>

\* the sort state of the component
SortState == <<sortMode, sortDataType, sortDataList, alreadySorted, isSorting>>

\* C34: a declined remove-all confirmation commits nothing and leaves danger
\* mode on; an accepted one commits exactly one unset and switches danger
\* mode off; in both cases the search text, the displayed results and the
\* sort state are unchanged.
C34_RemoveAllFrame ==
  [][last'.op = "ClickRemoveAll"
       => /\ IF last'.arg
             THEN emitted' = <<UnsetPatch>> /\ value' = <<>> /\ ~dangerMode'
             ELSE emitted' = <<>> /\ value' = value /\ dangerMode /\ dangerMode'
          /\ findValue' = findValue
          /\ findData' = findData
          /\ Displayed' = Displayed
          /\ SortState' = SortState
    ]_vars

\* a removal was declined and then accepted: the collection is unset and
\* danger mode is off
C34_Witness ==
  /\ last.op = "ClickRemoveAll"
  /\ last.arg
  /\ budget = 0
  /\ emitted = <<UnsetPatch>>
  /\ value = <<>>
  /\ ~dangerMode
  /\ findValue = <<>>

\* the steps in which a search or a sort starts, and those in which one
\* completes
StartOps == {"TimerFire", "ClickSort"}
CompleteOps == {"QueryResolve", "SortAllReferences"}

\* the search or sort that completed in the last step has failed
Failed == IF last.op = "QueryResolve" THEN ~last.arg.ok ELSE ~Committed

\* C35: the error reflects only the most recent search or sort: starting a
\* new search (also one for cleared text) or a new sort clears the error, a
\* search or sort that completes without failure leaves no error, and an error
\* appears only in a step in which a search or a sort (the loading of its
\* options included) fails.
C35_ErrorReflectsLatest ==
  [][mounted
       => /\ last'.op \in StartOps => error' = "none"
          /\ (last'.op \in CompleteOps /\ ~Failed') => error' = "none"
          /\ (error = "none" /\ error' # "none")
               => \/ last'.op \in CompleteOps /\ Failed'
                  \/ last'.op = "UpdateDataList"
    ]_vars

\* no two references of refs have the same _key
KeysDistinct(refs) == \A i, j \in 1..Len(refs) : i # j => refs[i].key # refs[j].key

\* C36: keys are locally unique: an add-one or add-all operation on a
\* collection whose keys are distinct yields a collection whose keys are
\* distinct, whatever keys the generator returns.
C36_KeysUnique ==
  [][(last'.op \in ResultOps /\ KeysDistinct(value)) => KeysDistinct(value')]_vars

====
